---- MODULE Spec2Model ----
(***************************************************************************)
(* Model of brightwheel.py: the provider pipeline merge_provider_files and *)
(* the helpers it calls.                                                   *)
(*                                                                         *)
(* A text value (a csv cell, a Python str) is a sequence of one-character  *)
(* strings.  A missing value (pandas NaN) is the one-element sequence      *)
(* Null, whose element is not a character.  Values are modelled, pandas    *)
(* column dtypes are not.                                                  *)
(***************************************************************************)
EXTENDS Integers, Sequences, FiniteSets, TLC

VARIABLES
    \* phone formatting, lines 140-148
    raw, normalized, renormalized, ppc,
    \* address blanking, lines 139 and 149
    cell, addr, apc,
    \* get_provider_data_from_web_site, lines 71-95
    tables, page, pos, row, column_num, csv_rows, wpc,
    \* merge_provider_files, lines 109-211
    providers, html_tables, attached_file,
    api_file, web_file, attached_new_file,
    df_api, df_web, df_attached, df_merged, merged_file, pc

phoneVars == <<raw, normalized, renormalized, ppc>>
addrVars == <<cell, addr, apc>>
webVars == <<tables, page, pos, row, column_num, csv_rows, wpc>>
pipeVars ==
    <<providers, html_tables, attached_file, api_file, web_file,
      attached_new_file, df_api, df_web, df_attached, df_merged, merged_file,
      pc>>
vars == <<phoneVars, addrVars, webVars, pipeVars>>

(***************************************************************************)
(* Bounds                                                                  *)
(***************************************************************************)
MaxPhoneLen == 10
MaxAddrLen == 6
\* pages fetched by the web adapter (44 in the code, range(1, 45))
MaxPage == 2
\* <td> cells of one page
MaxCells == 17

(***************************************************************************)
(* Text helpers                                                            *)
(***************************************************************************)
Null == <<"NaN">>

Min(a, b) == IF a < b THEN a ELSE b

\* Python slice s[i:j] with 0 <= i <= j, clipped to the length of s
Slice(s, i, j) == SubSeq(s, i + 1, Min(j, Len(s)))

\* Python slice s[i:]
SliceFrom(s, i) == SubSeq(s, i + 1, Len(s))

\* all texts over the characters cs of length 0..n
RECURSIVE TextsOfLen(_, _)
TextsOfLen(cs, n) ==
    IF n = 0 THEN {<<>>}
    ELSE {Append(t, c) : t \in TextsOfLen(cs, n - 1), c \in cs}

Texts(cs, n) == UNION {TextsOfLen(cs, k) : k \in 0..n}

NanText == <<"n", "a", "n">>

\* str(v) of a cell value: a missing value prints as "nan" (line 139, 140)
PyStr(v) == IF v = Null THEN NanText ELSE v

\* s.replace("nan", ""): leftmost non-overlapping occurrences, one pass
RECURSIVE ReplaceNan(_)
ReplaceNan(s) ==
    IF Len(s) < 3 THEN s
    ELSE IF SubSeq(s, 1, 3) = NanText THEN ReplaceNan(SubSeq(s, 4, Len(s)))
    ELSE <<s[1]>> \o ReplaceNan(Tail(s))

\* Series.str.replace("nan", ""): a missing value stays missing (line 190)
StrReplaceNan(v) == IF v = Null THEN Null ELSE ReplaceNan(v)

\* the values pandas.read_csv reads as missing
NaTokens == {<<>>, NanText}

ReadCsvCell(c) == IF c \in NaTokens THEN Null ELSE c

\* DataFrame.to_csv writes a missing value as the empty cell
ToCsvCell(v) == IF v = Null THEN <<>> ELSE v

(***************************************************************************)
(* Phone formatting, lines 141-148                                         *)
(***************************************************************************)
FormatPhoneOff(p) ==
    <<"(">> \o Slice(p, 0, 3) \o <<")", " ">> \o Slice(p, 3, 7) \o <<"-">>
        \o SliceFrom(p, 6)

\* leaves a phone that already starts with "(" as it is
FormatPhoneKeep(p) ==
    IF Len(p) > 0 /\ p[1] = "(" THEN p
    ELSE <<"(">> \o Slice(p, 0, 3) \o <<")", " ">> \o Slice(p, 3, 6) \o <<"-">>
             \o SliceFrom(p, 6)

FormatPhone(p) ==
    <<"(">> \o Slice(p, 0, 3) \o <<")", " ">> \o Slice(p, 3, 6) \o <<"-">>
        \o SliceFrom(p, 6)

Phone4155551234 == <<"4", "1", "5", "5", "5", "5", "1", "2", "3", "4">>
Phone415555 == <<"4", "1", "5", "5", "5", "5">>

PhoneChars == {"1", "5"}

PhoneInputs == Texts(PhoneChars, MaxPhoneLen) \cup {Phone4155551234, Phone415555}

InitPhone ==
    /\ raw \in PhoneInputs
    /\ normalized = Null
    /\ renormalized = Null
    /\ ppc = "raw"

\* df_attached["phone"] = "(" + phone.str[:3] + ") " + ... (lines 141-148)
NormalizePhone ==
    /\ ppc = "raw"
    /\ normalized' = FormatPhone(raw)
    /\ ppc' = "normalized"
    /\ UNCHANGED <<raw, renormalized, addrVars, webVars, pipeVars>>

\* the same expression applied to a phone that is already formatted
NormalizePhoneAgain ==
    /\ ppc = "normalized"
    /\ renormalized' = FormatPhone(normalized)
    /\ ppc' = "renormalized"
    /\ UNCHANGED <<raw, normalized, addrVars, webVars, pipeVars>>

(***************************************************************************)
(* Address blanking of the attached file, lines 135, 139, 149              *)
(***************************************************************************)
AddrChars == {"n", "a"}

InitAddr ==
    /\ cell \in Texts(AddrChars, MaxAddrLen)
    /\ addr = Null
    /\ apc = "file"

\* pd.read_csv (line 135)
ReadAddress ==
    /\ apc = "file"
    /\ addr' = ReadCsvCell(cell)
    /\ apc' = "read"
    /\ UNCHANGED <<cell, phoneVars, webVars, pipeVars>>

\* df_attached["address"].apply(str) (line 139)
StringifyAddress ==
    /\ apc = "read"
    /\ addr' = PyStr(addr)
    /\ apc' = "str"
    /\ UNCHANGED <<cell, phoneVars, webVars, pipeVars>>

\* df_attached["address"].str.replace("nan", "") (line 149)
BlankAddress ==
    /\ apc = "str"
    /\ addr' = StrReplaceNan(addr)
    /\ apc' = "blanked"
    /\ UNCHANGED <<cell, phoneVars, webVars, pipeVars>>

(***************************************************************************)
(* Web adapter, get_provider_data_from_web_site, lines 50-95               *)
(***************************************************************************)
ColumnsPerRow == 8

WebHeader ==
    <<"provider_name", "type_of_care", "address", "city", "state", "zip",
      "phone", "email">>

\* element.text of the i-th <td> of the table of page pg
CellText(pg, i) == <<pg, i>>

\* row = [] at the start of a page (line 84)
RowAtPageStartKept(r) == r

RowAtPageStart(r) == <<>>

\* if column_num == 8 (line 89)
RowComplete(n) == n = ColumnsPerRow

InitWeb ==
    /\ tables \in {[pg \in 1..MaxPage |-> [i \in 1..n[pg] |-> CellText(pg, i)]] :
                      n \in [1..MaxPage -> 0..MaxCells]}
    /\ page = 0
    /\ pos = 0
    /\ row = <<>>
    /\ column_num = 0
    /\ csv_rows = <<>>
    /\ wpc = "start"

\* open the output file and write the header row (lines 72-74)
OpenWebFile ==
    /\ wpc = "start"
    /\ csv_rows' = <<WebHeader>>
    /\ page' = 1
    /\ wpc' = "pages"
    /\ UNCHANGED <<tables, pos, row, column_num, phoneVars, addrVars, pipeVars>>

\* fetch and parse one page (lines 77-84)
FetchPage ==
    /\ wpc = "pages"
    /\ page <= MaxPage
    /\ pos' = 1
    /\ column_num' = 1
    /\ row' = RowAtPageStart(row)
    /\ wpc' = "cells"
    /\ UNCHANGED <<tables, page, csv_rows, phoneVars, addrVars, pipeVars>>

\* one iteration of "for element in html_table" (lines 87-93)
TakeCell ==
    /\ wpc = "cells"
    /\ pos <= Len(tables[page])
    /\ LET appended == Append(row, tables[page][pos])
       IN  IF RowComplete(column_num)
           THEN /\ csv_rows' = Append(csv_rows, appended)
                /\ row' = <<>>
                /\ column_num' = 0 + 1
           ELSE /\ csv_rows' = csv_rows
                /\ row' = appended
                /\ column_num' = column_num + 1
    /\ pos' = pos + 1
    /\ UNCHANGED <<tables, page, wpc, phoneVars, addrVars, pipeVars>>

\* the table of the page is exhausted: next page
EndPage ==
    /\ wpc = "cells"
    /\ pos > Len(tables[page])
    /\ page' = page + 1
    /\ wpc' = "pages"
    /\ UNCHANGED <<tables, pos, row, column_num, csv_rows, phoneVars, addrVars, pipeVars>>

\* output_file.close() (line 95)
CloseWebFile ==
    /\ wpc = "pages"
    /\ page > MaxPage
    /\ wpc' = "closed"
    /\ UNCHANGED <<tables, page, pos, row, column_num, csv_rows, phoneVars,
                   addrVars, pipeVars>>

IdleWeb ==
    /\ tables = <<>>
    /\ page = 0
    /\ pos = 0
    /\ row = <<>>
    /\ column_num = 0
    /\ csv_rows = <<>>
    /\ wpc = "off"

(***************************************************************************)
(* Tables: a csv file is a sequence of rows, the header row first; a       *)
(* DataFrame is a sequence of records.  Numbers are held as decimal text.  *)
(***************************************************************************)
Range(s) == {s[i] : i \in DOMAIN s}

IndexOf(s, x) == CHOOSE i \in DOMAIN s : s[i] = x

RECURSIVE Flatten(_)
Flatten(ss) == IF ss = <<>> THEN <<>> ELSE Head(ss) \o Flatten(Tail(ss))

DigitChars == <<"0", "1", "2", "3", "4", "5", "6", "7", "8", "9">>

\* str(n) of a count
RECURSIVE Decimal(_)
Decimal(n) ==
    IF n < 10 THEN <<DigitChars[n + 1]>>
    ELSE Decimal(n \div 10) \o <<DigitChars[(n % 10) + 1]>>

\* pd.read_csv(file): the first row gives the column names
ReadCsv(file) ==
    LET header == file[1]
    IN  [i \in 1..(Len(file) - 1) |->
            [c \in Range(header) |->
                ReadCsvCell(file[i + 1][IndexOf(header, c)])]]

\* df.to_csv(file, index=False) with the columns in order
ToCsv(df, columns) ==
    <<columns>> \o
        [i \in 1..Len(df) |->
            [j \in 1..Len(columns) |-> ToCsvCell(df[i][columns[j]])]]

\* code points of the characters the model uses
CharCode(c) ==
    CASE c = " " -> 32
      [] c = "(" -> 40
      [] c = ")" -> 41
      [] c = "-" -> 45
      [] c = "1" -> 49
      [] c = "2" -> 50
      [] c = "3" -> 51
      [] c = "4" -> 52
      [] c = "5" -> 53
      [] c = "6" -> 54
      [] c = "7" -> 55
      [] c = "8" -> 56
      [] c = "9" -> 57
      [] c = "0" -> 48
      [] c = "A" -> 65
      [] c = "Z" -> 90

\* Python str comparison a < b
RECURSIVE TextLess(_, _)
TextLess(a, b) ==
    IF b = <<>> THEN FALSE
    ELSE IF a = <<>> THEN TRUE
    ELSE IF a[1] = b[1] THEN TextLess(Tail(a), Tail(b))
    ELSE CharCode(a[1]) < CharCode(b[1])

\* comparison of sort keys, a key being a sequence of texts
RECURSIVE KeyLess(_, _)
KeyLess(k1, k2) ==
    IF k1 = <<>> THEN FALSE
    ELSE IF Head(k1) = Head(k2) THEN KeyLess(Tail(k1), Tail(k2))
    ELSE TextLess(Head(k1), Head(k2))

\* df.sort_values(by=columns): rows with equal keys keep their order
RECURSIVE SortValues(_, _)
SortValues(df, by) ==
    IF df = <<>> THEN <<>>
    ELSE LET sorted == SortValues(SubSeq(df, 1, Len(df) - 1), by)
             last == df[Len(df)]
             KeyOf(r) == [j \in 1..Len(by) |-> r[by[j]]]
             n == Cardinality({i \in 1..Len(sorted) :
                                  ~KeyLess(KeyOf(last), KeyOf(sorted[i]))})
         IN  SubSeq(sorted, 1, n) \o <<last>> \o SubSeq(sorted, n + 1, Len(sorted))

(***************************************************************************)
(* get_provider_data_from_api, lines 9-47                                  *)
(***************************************************************************)
ApiHeader == <<"id", "provider_name", "phone", "email", "owner_name">>

ApiCsvFile(provider_results) ==
    <<ApiHeader>> \o
        [i \in 1..Len(provider_results) |->
            [j \in 1..Len(ApiHeader) |-> provider_results[i][ApiHeader[j]]]]

(***************************************************************************)
(* get_provider_data_from_web_site as a function of the fetched tables     *)
(***************************************************************************)
\* the rows written for the cells of one page (lines 87-93)
RECURSIVE PageRows(_, _, _)
PageRows(cells, r, n) ==
    IF cells = <<>> THEN <<>>
    ELSE LET appended == Append(r, Head(cells))
         IN  IF RowComplete(n)
             THEN <<appended>> \o PageRows(Tail(cells), <<>>, 0 + 1)
             ELSE PageRows(Tail(cells), appended, n + 1)

WebCsvFile(pages) ==
    <<WebHeader>> \o
        Flatten([pg \in 1..Len(pages) |->
                    PageRows(pages[pg], RowAtPageStart(<<>>), 1)])

(***************************************************************************)
(* add_header_to_file, lines 98-106                                        *)
(***************************************************************************)
\* pd.read_csv(input) takes the first row of the input as the column names;
\* to_csv(header=header_list) writes header_list in their place
AddHeaderToFile(input, header_list) ==
    <<header_list>> \o
        [i \in 1..(Len(input) - 1) |->
            [j \in 1..Len(input[i + 1]) |->
                ToCsvCell(ReadCsvCell(input[i + 1][j]))]]

(***************************************************************************)
(* merge_provider_files, lines 109-211                                     *)
(***************************************************************************)
AttachedHeader ==
    <<"provider_name", "type_of_care", "address", "city", "state", "zip",
      "phone">>

SharedFields == <<"type_of_care", "address", "city", "state", "zip">>

\* df_attached.drop_duplicates(): the first of equal rows is kept (line 138)
RECURSIVE DropDuplicates(_)
DropDuplicates(df) ==
    IF df = <<>> THEN <<>>
    ELSE LET front == DropDuplicates(SubSeq(df, 1, Len(df) - 1))
             last == df[Len(df)]
         IN  IF last \in Range(front) THEN front ELSE Append(front, last)

\* lines 139-149: address and phone as text, phone formatted, "nan" removed
NormalizeAttached(df) ==
    [i \in 1..Len(df) |->
        [df[i] EXCEPT !.phone = FormatPhone(PyStr(@)),
                      !.address = StrReplaceNan(PyStr(@))]]

\* counts every record as its own group
DupeCountOne(df, r) == 1

\* groupby(["provider_name", "phone"])["provider_name"].transform("count")
DupeCount(df, r) ==
    Cardinality({i \in 1..Len(df) :
                    /\ df[i].provider_name = r.provider_name
                    /\ df[i].phone = r.phone})

AttachedColumns == AttachedHeader \o <<"dupe_count">>

WithDupeCount(df) ==
    [i \in 1..Len(df) |->
        [c \in Range(AttachedColumns) |->
            IF c = "dupe_count" THEN Decimal(DupeCount(df, df[i]))
            ELSE df[i][c]]]

\* lines 138-153
CleanAttached(df) ==
    SortValues(WithDupeCount(NormalizeAttached(DropDuplicates(df))),
               <<"provider_name", "phone">>)

\* on=["provider_name", "phone"]
SameKey(l, r) == l.provider_name = r.provider_name /\ l.phone = r.phone

\* how="inner": a left row without a match is dropped
UnmatchedDropped(r) == <<>>

\* how="left": a left row without a match is kept
Unmatched(r) == <<r>>

\* pd.merge(left, right, on=key, how="left") as the pairs of joined rows:
\* a left row without a match is paired with missing values
LeftMerge(left, right, columns) ==
    Flatten([i \in 1..Len(left) |->
                LET m == SelectSeq(right, LAMBDA r : SameKey(left[i], r))
                IN  IF m = <<>>
                    THEN Unmatched(<<left[i], [c \in Range(columns) |-> Null]>>)
                    ELSE [k \in 1..Len(m) |-> <<left[i], m[k]>>]])

PrimaryColumns == ApiHeader \o SharedFields

\* lines 157-172: df_api with the selected columns of df_web
MergeApiWeb(api, web) ==
    LET pairs == LeftMerge(api, web, WebHeader)
    IN  [i \in 1..Len(pairs) |->
            [c \in Range(PrimaryColumns) |->
                IF c \in Range(ApiHeader) THEN pairs[i][1][c] ELSE pairs[i][2][c]]]

JoinedColumns ==
    ApiHeader
        \o <<"type_of_care_x", "address_x", "city_x", "state_x", "zip_x">>
        \o <<"type_of_care_y", "address_y", "city_y", "state_y", "zip_y">>
        \o <<"dupe_count">>

XOf(c) ==
    CASE c = "type_of_care_x" -> "type_of_care"
      [] c = "address_x" -> "address"
      [] c = "city_x" -> "city"
      [] c = "state_x" -> "state"
      [] c = "zip_x" -> "zip"

YOf(c) ==
    CASE c = "type_of_care_y" -> "type_of_care"
      [] c = "address_y" -> "address"
      [] c = "city_y" -> "city"
      [] c = "state_y" -> "state"
      [] c = "zip_y" -> "zip"

XColumns == {"type_of_care_x", "address_x", "city_x", "state_x", "zip_x"}
YColumns == {"type_of_care_y", "address_y", "city_y", "state_y", "zip_y"}

\* lines 175-180: the colliding columns get the suffixes _x and _y
MergeAttached(merged, attached) ==
    LET pairs == LeftMerge(merged, attached, AttachedColumns)
    IN  [i \in 1..Len(pairs) |->
            [c \in Range(JoinedColumns) |->
                IF c \in Range(ApiHeader) THEN pairs[i][1][c]
                ELSE IF c \in XColumns THEN pairs[i][1][XOf(c)]
                ELSE IF c \in YColumns THEN pairs[i][2][YOf(c)]
                ELSE pairs[i][2].dupe_count]]

\* df.loc[df[x].isnull(), x] = df[y] (lines 183-189)
FillNull(x, y) == IF x = Null THEN y ELSE x

MergedColumns == ApiHeader \o SharedFields \o <<"dupe_count">>

\* lines 183-204: fill, blank "nan" in the address, drop _y, rename _x
Reconcile(joined) ==
    [i \in 1..Len(joined) |->
        LET j == joined[i]
        IN  [c \in Range(MergedColumns) |->
                CASE c = "type_of_care" -> FillNull(j.type_of_care_x, j.type_of_care_y)
                  [] c = "address" ->
                        StrReplaceNan(FillNull(j.address_x, j.address_y))
                  [] c = "city" -> FillNull(j.city_x, j.city_y)
                  [] c = "state" -> FillNull(j.state_x, j.state_y)
                  [] c = "zip" -> FillNull(j.zip_x, j.zip_y)
                  [] OTHER -> j[c]]]

(***************************************************************************)
(* Inputs of the pipeline                                                  *)
(***************************************************************************)
MaxApi == 2
MaxWeb == 2
MaxAttached == 2

Seqs(S, n) == UNION {[1..k -> S] : k \in 0..n}

NameA == <<"A">>
NameZ == <<"Z">>
Names == {NameA, NameZ}

PhoneCanon ==
    <<"(", "4", "1", "5", ")", " ", "5", "5", "5", "-", "1", "2", "3", "4">>

Blank == <<>>

ApiEmail == <<"a", "@", "x">>
OwnerName == <<"o", "w", "n">>

Provider(i, name, phone, email) ==
    [id |-> Decimal(i), provider_name |-> name, phone |-> phone,
     email |-> email, owner_name |-> OwnerName]

WebCare == <<"D", "a", "y">>
WebAddress == <<"1", " ", "E", "l", "m">>
WebCity == <<"L", "A">>
WebState == <<"C", "A">>
WebZip == <<"9", "0", "0", "0", "1">>
WebEmail == <<"w", "@", "x">>
Buchanan == <<"B", "u", "c", "h", "a", "n", "a", "n">>

WebRows ==
    { <<NameA, WebCare, WebAddress, WebCity, WebState, WebZip, PhoneCanon, WebEmail>>,
      <<NameA, Blank, Blank, Blank, Blank, Blank, PhoneCanon, WebEmail>>,
      <<NameZ, WebCare, Buchanan, Blank, WebState, Blank, PhoneCanon, WebEmail>> }

AttCare == <<"H", "o", "m", "e">>
AttAddress == <<"9", " ", "O", "a", "k">>
AttCity == <<"S", "F">>
AttState == <<"N", "V">>
AttZip == <<"9", "4", "1", "0", "1">>

AttachedFirst ==
    <<NameA, AttCare, AttAddress, AttCity, AttState, AttZip, Phone4155551234>>

AttachedRows ==
    { AttachedFirst,
      <<NameA, Blank, Blank, Blank, Blank, Blank, Phone4155551234>>,
      <<NameZ, AttCare, AttAddress, AttCity, AttState, AttZip, Phone415555>> }

\* the rows of the web directory as the <td> cells of the first page
PagesOf(rows) == [pg \in 1..MaxPage |-> IF pg = 1 THEN Flatten(rows) ELSE <<>>]

NoOutputYet ==
    /\ api_file = <<>>
    /\ web_file = <<>>
    /\ attached_new_file = <<>>
    /\ df_api = <<>>
    /\ df_web = <<>>
    /\ df_attached = <<>>
    /\ df_merged = <<>>
    /\ merged_file = <<>>

InitPipe ==
    /\ providers \in {[i \in 1..Len(ns) |-> Provider(i, ns[i], PhoneCanon, ApiEmail)] :
                         ns \in Seqs(Names, MaxApi)}
    /\ html_tables \in {PagesOf(rows) : rows \in Seqs(WebRows, MaxWeb)}
    /\ attached_file \in
           {<<>>} \cup {<<AttachedFirst>> \o d : d \in Seqs(AttachedRows, MaxAttached)}
    /\ NoOutputYet
    /\ pc = "start"

\* lines 113-116
FetchSources ==
    /\ pc = "start"
    /\ api_file' = ApiCsvFile(providers)
    /\ web_file' = WebCsvFile(html_tables)
    /\ pc' = "fetched"
    /\ UNCHANGED <<providers, html_tables, attached_file, attached_new_file,
                   df_api, df_web, df_attached, df_merged, merged_file,
                   phoneVars, addrVars, webVars>>

\* lines 119-130; pd.read_csv raises EmptyDataError on a file without rows
AddHeader ==
    /\ pc = "fetched"
    /\ IF attached_file = <<>>
       THEN /\ pc' = "aborted"
            /\ attached_new_file' = attached_new_file
       ELSE /\ pc' = "headed"
            /\ attached_new_file' = AddHeaderToFile(attached_file, AttachedHeader)
    /\ UNCHANGED <<providers, html_tables, attached_file, api_file, web_file,
                   df_api, df_web, df_attached, df_merged, merged_file,
                   phoneVars, addrVars, webVars>>

\* lines 133-135
ReadFrames ==
    /\ pc = "headed"
    /\ df_api' = ReadCsv(api_file)
    /\ df_web' = ReadCsv(web_file)
    /\ df_attached' = ReadCsv(attached_new_file)
    /\ pc' = "read"
    /\ UNCHANGED <<providers, html_tables, attached_file, api_file, web_file,
                   attached_new_file, df_merged, merged_file,
                   phoneVars, addrVars, webVars>>

\* lines 138-154
CleanUpAttached ==
    /\ pc = "read"
    /\ df_attached' = CleanAttached(df_attached)
    /\ attached_new_file' = ToCsv(df_attached', AttachedColumns)
    /\ pc' = "cleaned"
    /\ UNCHANGED <<providers, html_tables, attached_file, api_file, web_file,
                   df_api, df_web, df_merged, merged_file,
                   phoneVars, addrVars, webVars>>

\* lines 157-172
MergeWeb ==
    /\ pc = "cleaned"
    /\ df_merged' = MergeApiWeb(df_api, df_web)
    /\ pc' = "merged_web"
    /\ UNCHANGED <<providers, html_tables, attached_file, api_file, web_file,
                   attached_new_file, df_api, df_web, df_attached, merged_file,
                   phoneVars, addrVars, webVars>>

\* lines 175-180
MergeAttachedFile ==
    /\ pc = "merged_web"
    /\ df_merged' = MergeAttached(df_merged, df_attached)
    /\ pc' = "merged_attached"
    /\ UNCHANGED <<providers, html_tables, attached_file, api_file, web_file,
                   attached_new_file, df_api, df_web, df_attached, merged_file,
                   phoneVars, addrVars, webVars>>

\* lines 183-204
ReconcileColumns ==
    /\ pc = "merged_attached"
    /\ df_merged' = Reconcile(df_merged)
    /\ pc' = "reconciled"
    /\ UNCHANGED <<providers, html_tables, attached_file, api_file, web_file,
                   attached_new_file, df_api, df_web, df_attached, merged_file,
                   phoneVars, addrVars, webVars>>

\* lines 207-211
SortAndWrite ==
    /\ pc = "reconciled"
    /\ df_merged' = SortValues(df_merged, <<"provider_name">>)
    /\ merged_file' = ToCsv(df_merged', MergedColumns)
    /\ pc' = "done"
    /\ UNCHANGED <<providers, html_tables, attached_file, api_file, web_file,
                   attached_new_file, df_api, df_web, df_attached,
                   phoneVars, addrVars, webVars>>

IdlePipe ==
    /\ providers = <<>>
    /\ html_tables = <<>>
    /\ attached_file = <<>>
    /\ NoOutputYet
    /\ pc = "off"

IdlePhone == raw = <<>> /\ normalized = Null /\ renormalized = Null /\ ppc = "off"
IdleAddr == cell = <<>> /\ addr = Null /\ apc = "off"

PhoneInit == InitPhone /\ IdleAddr /\ IdleWeb /\ IdlePipe

PhoneNext == NormalizePhone \/ NormalizePhoneAgain

SpecPhone == PhoneInit /\ [][PhoneNext]_vars

AddressInit == InitAddr /\ IdlePhone /\ IdleWeb /\ IdlePipe

AddressNext == ReadAddress \/ StringifyAddress \/ BlankAddress

SpecAddress == AddressInit /\ [][AddressNext]_vars

WebInit == InitWeb /\ IdlePhone /\ IdleAddr /\ IdlePipe

WebNext == OpenWebFile \/ FetchPage \/ TakeCell \/ EndPage \/ CloseWebFile

SpecWeb == WebInit /\ [][WebNext]_vars

Init == InitPipe /\ IdlePhone /\ IdleAddr /\ IdleWeb

Next ==
    \/ FetchSources
    \/ AddHeader
    \/ ReadFrames
    \/ CleanUpAttached
    \/ MergeWeb
    \/ MergeAttachedFile
    \/ ReconcileColumns
    \/ SortAndWrite

Spec == Init /\ [][Next]_vars

(***************************************************************************)
(* add_header_to_file on its own                                           *)
(***************************************************************************)
MaxFileRows == 4

InitHeader ==
    /\ providers = <<>>
    /\ html_tables = PagesOf(<<>>)
    /\ attached_file \in Seqs(AttachedRows, MaxFileRows)
    /\ api_file = ApiCsvFile(providers)
    /\ web_file = WebCsvFile(html_tables)
    /\ attached_new_file = <<>>
    /\ df_api = <<>>
    /\ df_web = <<>>
    /\ df_attached = <<>>
    /\ df_merged = <<>>
    /\ merged_file = <<>>
    /\ pc = "fetched"

HeaderInit == InitHeader /\ IdlePhone /\ IdleAddr /\ IdleWeb

HeaderNext == AddHeader

SpecHeader == HeaderInit /\ [][HeaderNext]_vars

(***************************************************************************)
(* The end-to-end scenario: one record per source for the same provider,   *)
(* with the same raw 10-digit phone; the API carries the email, the web    *)
(* directory type_of_care and city, the attached file the address.         *)
(***************************************************************************)
Phone5551234567 == <<"5", "5", "5", "1", "2", "3", "4", "5", "6", "7">>

InitE2E ==
    /\ \E name \in Names, phone \in {Phone4155551234, Phone5551234567},
          email \in {ApiEmail, WebEmail}, care \in {WebCare, AttCare},
          city \in {WebCity, AttCity}, address \in {WebAddress, AttAddress} :
          /\ providers = <<Provider(1, name, phone, email)>>
          /\ html_tables =
                 PagesOf(<< <<name, care, Blank, city, Blank, Blank, phone, Blank>> >>)
          /\ attached_file =
                 << <<name, Blank, address, Blank, Blank, Blank, phone>> >>
    /\ NoOutputYet
    /\ pc = "start"

E2EInit == InitE2E /\ IdlePhone /\ IdleAddr /\ IdleWeb

SpecE2E == E2EInit /\ [][Next]_vars

PhoneIdempotent ==
    (ppc = "renormalized" /\ Len(raw) = 10) => renormalized = normalized

(***************************************************************************)
(* C5 amended: normalization is not idempotent.  Applied to the normalized *)
(* form of a 10-digit phone p it yields the 18 characters                  *)
(* "((" + p[0:2] + ") " + p[2] + ") -" + p[3:6] + "-" + p[6:], which is    *)
(* not normalize(p).                                                       *)
(***************************************************************************)
PhoneRenormalized ==
    (ppc = "renormalized" /\ Len(raw) = 10) =>
        /\ renormalized =
               <<"(", "(", raw[1], raw[2], ")", " ", raw[3], ")", " ", "-",
                 raw[4], raw[5], raw[6], "-", raw[7], raw[8], raw[9], raw[10]>>
        /\ renormalized # normalized

PhoneRenormalizedWitness ==
    /\ ppc = "renormalized"
    /\ raw = Phone4155551234
    /\ Len(renormalized) = 18

(***************************************************************************)
(* C7 as stated, for the address of the attached file: after the           *)
(* normalization no address holds the text "nan"; an address that was      *)
(* "nan" (a missing value, stringified) is the empty text.                 *)
(***************************************************************************)
NoNanAddress ==
    apc = "blanked" =>
        /\ addr # NanText
        /\ (PyStr(ReadCsvCell(cell)) = NanText => addr = <<>>)

(***************************************************************************)
(* C10: the web adapter writes, for a page of n cells, floor(n / 8) rows;  *)
(* row k holds the cells 8(k-1)+1 .. 8k of the page in order; at every     *)
(* loop step column_num = len(row) + 1 and len(row) < 8; the trailing      *)
(* n mod 8 cells of a page are in no row, and the first row of the next    *)
(* page starts at the first cell of that page.                             *)
(***************************************************************************)
ChunkRows(pg, n) ==
    [k \in 1..(n \div ColumnsPerRow) |->
        [j \in 1..ColumnsPerRow |-> tables[pg][ColumnsPerRow * (k - 1) + j]]]

RECURSIVE RowsOfPages(_)
RowsOfPages(lastPage) ==
    IF lastPage = 0 THEN <<>>
    ELSE RowsOfPages(lastPage - 1) \o ChunkRows(lastPage, Len(tables[lastPage]))

WebRowChunking ==
    /\ wpc = "cells" =>
           /\ column_num = Len(row) + 1
           /\ Len(row) < ColumnsPerRow
           /\ Tail(csv_rows) = RowsOfPages(page - 1) \o ChunkRows(page, pos - 1)
    /\ wpc = "pages" => Tail(csv_rows) = RowsOfPages(page - 1)
    /\ wpc = "closed" =>
           /\ csv_rows[1] = WebHeader
           /\ Tail(csv_rows) = RowsOfPages(MaxPage)
           /\ \A r \in 2..Len(csv_rows) : Len(csv_rows[r]) = ColumnsPerRow

\* a first page with trailing cells, then a row written from the next page
WebRowChunkingWitness ==
    /\ wpc = "closed"
    /\ Len(tables[1]) % ColumnsPerRow # 0
    /\ Len(tables[1]) > ColumnsPerRow
    /\ Len(csv_rows) > 2
    /\ csv_rows[Len(csv_rows)][1] = CellText(2, 1)

(***************************************************************************)
(* C1 as stated: in the end-to-end scenario the merged output has exactly  *)
(* one row for the provider; the row carries the email of the API, the     *)
(* type_of_care and the city of the web directory and the address of the   *)
(* attached file, and its phone is in the form "(ddd) ddd-dddd".           *)
(***************************************************************************)
EndToEndOneRow ==
    pc = "done" =>
        /\ Len(merged_file) = 2
        /\ LET out == merged_file[2]
               Col(c) == out[IndexOf(MergedColumns, c)]
           IN  /\ Col("provider_name") = providers[1].provider_name
               /\ Col("email") = providers[1].email
               /\ Col("type_of_care") = html_tables[1][2]
               /\ Col("city") = html_tables[1][4]
               /\ Col("address") = attached_file[1][3]
               /\ Col("phone") =
                      <<"(">> \o SubSeq(providers[1].phone, 1, 3) \o <<")", " ">>
                          \o SubSeq(providers[1].phone, 4, 6) \o <<"-">>
                          \o SubSeq(providers[1].phone, 7, 10)

(***************************************************************************)
(* C2 as stated: in every row of the merged output, each of type_of_care,  *)
(* address, city, state and zip is the value of the web record with the    *)
(* row's key if that value is not null, else the value of the attached     *)
(* record with the row's key; it is null only if both are null.            *)
(***************************************************************************)
SharedOf(r) == [f \in Range(SharedFields) |-> r[f]]

NoRecord == [f \in Range(SharedFields) |-> Null]

KeyMatching(df, r) ==
    LET found == {SharedOf(q) : q \in {q \in Range(df) :
                      q.provider_name = r.provider_name /\ q.phone = r.phone}}
    IN  IF found = {} THEN {NoRecord} ELSE found

FirstNonNullWins ==
    pc = "done" =>
        \A j \in DOMAIN df_merged :
            \E w \in KeyMatching(df_web, df_merged[j]),
               a \in KeyMatching(df_attached, df_merged[j]) :
                \A f \in Range(SharedFields) :
                    df_merged[j][f] = (IF w[f] # Null THEN w[f] ELSE a[f])

(***************************************************************************)
(* C3 as stated: the merged output has exactly one row per API record;     *)
(* no row has an identity key that is absent from the API source.          *)
(***************************************************************************)
RowsOfApiRecord(i) == {j \in DOMAIN df_merged : df_merged[j].id = df_api[i].id}

RowsComeFromApi ==
    \A j \in DOMAIN df_merged :
        \E i \in DOMAIN df_api :
            /\ df_merged[j].id = df_api[i].id
            /\ df_merged[j].provider_name = df_api[i].provider_name
            /\ df_merged[j].phone = df_api[i].phone

NumWithKey(df, r) ==
    Cardinality({k \in DOMAIN df :
                    /\ df[k].provider_name = r.provider_name
                    /\ df[k].phone = r.phone})

AtLeastOne(n) == IF n = 0 THEN 1 ELSE n

AttachedRead == ReadCsv(AddHeaderToFile(attached_file, AttachedHeader))

SameAttachedKey(p, q) ==
    /\ p.provider_name = q.provider_name
    /\ PyStr(p.phone) = PyStr(q.phone)

\* c is the cleaned form of the record q, with the count n
CleanedFrom(c, q, n) ==
    /\ c.provider_name = q.provider_name
    /\ c.type_of_care = q.type_of_care
    /\ c.city = q.city
    /\ c.state = q.state
    /\ c.zip = q.zip
    /\ Len(c.phone) = Len(PyStr(q.phone)) + 4
    /\ SelectSeq(c.phone, LAMBDA ch : ch \notin {"(", ")", " ", "-"}) = PyStr(q.phone)
    /\ (q.address = Null => c.address = <<>>)
    /\ (q.address \in {WebAddress, AttAddress} => c.address = q.address)
    /\ c.dupe_count = Decimal(n)

DupeCountKeepsAll ==
    pc = "cleaned" =>
        /\ Len(df_attached) = Len(AttachedRead)
        /\ \A i \in DOMAIN AttachedRead :
               \E j \in DOMAIN df_attached :
                   CleanedFrom(df_attached[j], AttachedRead[i],
                       Cardinality({k \in DOMAIN AttachedRead :
                           SameAttachedKey(AttachedRead[k], AttachedRead[i])}))

(***************************************************************************)
(* C4 amended: the clean-up first collapses records that are equal in      *)
(* every field into one; every distinct record read from the attached      *)
(* file is present once and carries dupe_count = the number of distinct    *)
(* records that share its (provider_name, normalized phone).  Two records  *)
(* that share a key and differ in another field each get dupe_count = 2,   *)
(* a record with a unique key gets 1, and two records equal in every       *)
(* field become one record that counts once.                               *)
(***************************************************************************)
DupeCountOfDistinct ==
    pc = "cleaned" =>
        LET distinct == Range(AttachedRead)
        IN  /\ Len(df_attached) = Cardinality(distinct)
            /\ \A q \in distinct :
                   \E j \in DOMAIN df_attached :
                       CleanedFrom(df_attached[j], q,
                           Cardinality({d \in distinct : SameAttachedKey(d, q)}))

DupeCountOfDistinctWitness ==
    /\ pc = "cleaned"
    /\ Len(AttachedRead) = 2
    /\ AttachedRead[1] = AttachedRead[2]
    /\ Len(df_attached) = 1
    /\ df_attached[1].dupe_count = <<"1">>

(***************************************************************************)
(* C8 as stated: a primary row (an API record joined with its web fields)  *)
(* whose identity key matches no record of the attached file appears in    *)
(* the merged output with every primary field equal to its value before    *)
(* the merge with the attached file, and with dupe_count unset.            *)
(***************************************************************************)
PrimaryRows == MergeApiWeb(df_api, df_web)

PrimaryOf(r) == [c \in Range(PrimaryColumns) |-> r[c]]

UnmatchedKeepsPrimary ==
    pc = "done" =>
        \A i \in DOMAIN df_api :
            NumWithKey(df_attached, df_api[i]) = 0 =>
                LET mine(r) == r.id = df_api[i].id
                    before == SelectSeq(PrimaryRows, mine)
                    after == SelectSeq(df_merged, mine)
                IN  /\ Len(after) = Len(before)
                    /\ \A k \in DOMAIN after :
                           /\ PrimaryOf(after[k]) = before[k]
                           /\ after[k].dupe_count = Null

(***************************************************************************)
(* C9 as stated: add_header_to_file writes the header row followed by all  *)
(* n rows of the headerless input, in order and unchanged.                 *)
(***************************************************************************)
HeaderKeepsAllRows ==
    pc = "headed" =>
        /\ Len(attached_new_file) = Len(attached_file) + 1
        /\ attached_new_file = <<AttachedHeader>> \o attached_file

====
